---- MODULE Spec2Model ----
(***************************************************************************)
(* Model of the e-Kuatia invoice automation core of msoutto/maran-fill:    *)
(*   - EkuatiaInvoiceAgent (processInvoice and the steps it awaits),       *)
(*   - getCurrentConfiguration over the TTL cache,                         *)
(*   - submitInvoiceWithRetry / isRetryable (the guide's retry strategy),  *)
(*   - EkuatiaBaseError.isRetryable / isRetryableError (types/errors.ts),  *)
(*   - MockCache and CacheManager, for one and for several taxpayers,      *)
(*   - mockLoginApi (tests/mocks/ekuatia.ts).                              *)
(* An action is one handler run from one await to the next: the response   *)
(* to the awaited call arrives and the code runs on to its next await.     *)
(***************************************************************************)
EXTENDS Integers, Sequences, FiniteSets, TLC

\* ------------------------------------------------------------------ bounds
MaxItems == 2
MaxQty == 2
MaxPrice == 2
MaxIva == 1
MaxTicks == 1
MaxRetriesBound == 4
CacheStepDays == 30
MaxClock == 150
MaxLoginCalls == 2

\* ------------------------------------------------------- program constants
TTL_DAYS == 90
DefaultMaxRetries == 3
BackoffBaseMs == 1000
DefaultTtlDays == 90
ExamplePrice == 500000

\* --------------------------------------------------------------- the data
Null == [null |-> TRUE]

RUC == "5452-1"

\* A second taxpayer served by the same process.
OtherRUC == "1234567-8"

Taxpayers == {RUC, OtherRUC}

CacheKey(ruc) == <<"ekuatia_config_", ruc>>

\* The two processInvoice calls the agent is given.
Procs == 1 .. 2

NoSession == 0

\* An optional numeric field of InvoiceData: <<>> when the field is absent.
Absent == <<>>

Present(v) == <<v>>

\* JavaScript truthiness of an optional number: undefined and 0 are falsy.
Truthy(opt) == opt # Absent /\ opt[1] # 0

\* The profile GET /perfil returns for the taxpayer.
RemoteProfile ==
  [ numero_timbrado |-> "12561412",
    actividad_economica |-> "servicios",
    fecha_aprobacion |-> "20/03/2024",
    tipo_contribuyente |-> "FISICO",
    csc |-> "CSC_VALUE_123456" ]

\* configureInvoicer's configData, built from this.profile.
ConfigDataOf(profile) ==
  [ modality |-> "BASICA",
    numero_timbrado |-> profile.numero_timbrado,
    establecimiento |-> 1,
    tipo_documento |-> "FACTURA ELECTRONICA",
    actividad_economica |-> profile.actividad_economica,
    fecha_inicio_vigencia |-> profile.fecha_aprobacion,
    punto_expedicion |-> 1,
    tipo_contribuyente |-> profile.tipo_contribuyente,
    codigo_seguridad_contribuyente |-> profile.csc ]

\* The configuration the remote system holds once the taxpayer is configured.
OwnConfig == ConfigDataOf(RemoteProfile)

\* What a change made in Marangatu can turn it into: a renewed timbrado, a
\* second establishment, or no configuration any more (Null).
RenewedConfig == [ConfigDataOf(RemoteProfile) EXCEPT !.numero_timbrado = "99999999"]

SecondEstablishmentConfig == [ConfigDataOf(RemoteProfile) EXCEPT !.establecimiento = 2]

ChangedConfigs == {RenewedConfig, SecondEstablishmentConfig, Null}

\* JSON.stringify of a configuration (or of null): the fields in key order.
Stringify(c) ==
  IF c = Null THEN <<"null">>
  ELSE << c.modality, c.numero_timbrado, c.establecimiento, c.tipo_documento,
          c.actividad_economica, c.fecha_inicio_vigencia, c.punto_expedicion,
          c.tipo_contribuyente, c.codigo_seguridad_contribuyente >>

configsMatch(config1, config2) == Stringify(config1) = Stringify(config2)

\* ------------------------------------------------------------ invoice data
Item(q, p, iva) ==
  [cantidad |-> q, precio_unitario |-> p, monto_iva |-> iva, monto_total |-> q * p + iva]

Items == {Item(1, MaxPrice, 0), Item(MaxQty, 1, MaxIva)}

RECURSIVE SeqsOfLen(_, _)
SeqsOfLen(S, n) ==
  IF n = 0 THEN {<<>>}
  ELSE {Append(s, x) : s \in SeqsOfLen(S, n - 1), x \in S}

ItemLists == UNION {SeqsOfLen(Items, n) : n \in 1 .. MaxItems}

RECURSIVE SumSubtotal(_)
SumSubtotal(items) ==
  IF items = <<>> THEN 0
  ELSE SumSubtotal(SubSeq(items, 1, Len(items) - 1))
       + items[Len(items)].cantidad * items[Len(items)].precio_unitario

RECURSIVE SumIva(_)
SumIva(items) ==
  IF items = <<>> THEN 0
  ELSE SumIva(SubSeq(items, 1, Len(items) - 1)) + items[Len(items)].monto_iva

\* EkuatiaInvoiceAgent.calculateInvoiceTotals
calculateInvoiceTotals(invoiceData) ==
  [ subtotal |-> SumSubtotal(invoiceData.items),
    total_iva |-> SumIva(invoiceData.items),
    total_general |-> SumSubtotal(invoiceData.items) + SumIva(invoiceData.items) ]

\* The summaries a caller may supply for a list of items: the right one, one
\* whose grand total is off, and one whose subtotal is off.
SummaryChoices(items) ==
  LET t == calculateInvoiceTotals([items |-> items])
  IN  { t,
        [t EXCEPT !.total_general = @ + 1],
        [t EXCEPT !.subtotal = @ + 1] }

InvoiceOf(items, resumen, est, pe, tipo) ==
  [ items |-> items, resumen |-> resumen, establecimiento |-> est,
    punto_expedicion |-> pe, tipo_documento |-> tipo ]

HappyItems == <<Item(1, MaxPrice, 0)>>

\* createInvoiceExample's request: one item, quantity 1, unit price 500000, no
\* tax, and the summary {500000, 0, 500000}.
ExampleInvoice ==
  InvoiceOf(<<Item(1, ExamplePrice, 0)>>,
            [subtotal |-> ExamplePrice, total_iva |-> 0, total_general |-> ExamplePrice],
            Absent, Absent, <<>>)

\* Requests with an amount that is not positive: a unit price of zero, and a
\* negative one; their summaries are the sums of their items.
NonPositiveInvoices ==
  {InvoiceOf(<<Item(1, price, 0)>>, calculateInvoiceTotals([items |-> <<Item(1, price, 0)>>]),
             Absent, Absent, <<>>) : price \in {0, -1}}

OptionalOneChoices == {Absent, Present(0), Present(1), Present(2)}

DocumentTypes == {"FACTURA ELECTRONICA", "NOTA_CREDITO", "NOTA_DEBITO"}

TipoChoices == {<<>>, <<"FACTURA ELECTRONICA">>, <<"RECIBO">>}

\* The invoice requests a caller may pass to processInvoice: every list of
\* items with each summary choice, and the one-item request with each value of
\* the optional establecimiento, punto_expedicion and tipo_documento fields;
\* the request of createInvoiceExample; and requests with a non-positive amount.
InvoiceInputs ==
  UNION {{InvoiceOf(items, r, Absent, Absent, <<>>) : r \in SummaryChoices(items)} :
           items \in ItemLists}
  \cup {InvoiceOf(HappyItems, calculateInvoiceTotals([items |-> HappyItems]), e, Absent, <<>>) :
          e \in OptionalOneChoices}
  \cup {InvoiceOf(HappyItems, calculateInvoiceTotals([items |-> HappyItems]), Absent, pe, <<>>) :
          pe \in OptionalOneChoices}
  \cup {InvoiceOf(HappyItems, calculateInvoiceTotals([items |-> HappyItems]), Absent, Absent, t) :
          t \in TipoChoices}
  \cup {ExampleInvoice}
  \cup NonPositiveInvoices

\* The requests given to two overlapping calls.
ConcurrentInputs ==
  {InvoiceOf(HappyItems, r, Absent, Absent, <<>>) : r \in SummaryChoices(HappyItems)}

\* The reconciliation the specification asks for: the line items sum to
\* subtotal + total_iva and to total_general.
Reconciles(invoiceData) ==
  LET t == calculateInvoiceTotals(invoiceData)
  IN  /\ t.total_general = invoiceData.resumen.subtotal + invoiceData.resumen.total_iva
      /\ t.total_general = invoiceData.resumen.total_general

\* EkuatiaInvoiceAgent.validateInvoiceAgainstConfig: "ok", or the message of
\* the InvoiceCreationError it throws. The config parameter is never read.
validateInvoiceAgainstConfig(invoiceData, cfg) ==
  IF invoiceData.tipo_documento # <<>> /\ invoiceData.tipo_documento[1] \notin DocumentTypes
    THEN "Invalid document type"
  ELSE IF Truthy(invoiceData.establecimiento) /\ invoiceData.establecimiento[1] # 1
    THEN "Establishment must be 1"
  ELSE IF Truthy(invoiceData.punto_expedicion) /\ invoiceData.punto_expedicion[1] # 1
    THEN "Dispatch point must be 1"
  ELSE "ok"

\* createInvoice's payload; this.config is dereferenced while it is built.
PayloadOf(invoiceData, cfg) ==
  [ numero_timbrado |-> cfg.numero_timbrado,
    punto_expedicion |-> 1,
    establecimiento |-> 1,
    tipo_documento |-> cfg.tipo_documento,
    items |-> invoiceData.items,
    resumen |-> invoiceData.resumen ]

\* ----------------------------------------------------------------- errors
\* The error classes of the agent's pseudo-code; "Error" is anything else that
\* is thrown (a rejected fetch, a TypeError).
Err(cls, msg) == [cls |-> cls, message |-> msg]

AuthenticationMessages == {"INVALID_CREDENTIALS", "APPROVAL_NOT_FOUND", "RUC_INACTIVE"}

ConfigurationMessages == {"MULTIPLE_ESTABLISHMENTS", "CERTIFICATE_MISSING", "CSC_INVALID"}

InvoiceMessages == {"INVALID_DATOS_RECEPTOR", "MONTO_NEGATIVO", "DOCUMENTO_DUPLICADO"}

UserCancelledConfiguration == "User cancelled configuration setup"

UserCancelledInvoice == "User cancelled invoice posting"

\* EkuatiaInvoiceAgent.handleError: the ProcessResult it returns ...
handleErrorResult(err) ==
  CASE err.cls = "AuthenticationError" ->
         [success |-> FALSE, error |-> "AUTHENTICATION_FAILED"]
    [] err.cls = "ConfigurationError" ->
         [success |-> FALSE, error |-> "CONFIGURATION_INVALID"]
    [] err.cls = "InvoiceCreationError" ->
         [success |-> FALSE, error |-> err.message]
    [] err.cls = "ConfigurationRetrievalError" ->
         [success |-> FALSE, error |-> "CONFIGURATION_UNAVAILABLE"]
    [] OTHER ->
         [success |-> FALSE, error |-> "UNKNOWN_ERROR"]

\* ... what it leaves in this.session ...
handleErrorSession(err, s) ==
  IF err.cls = "AuthenticationError" THEN NoSession ELSE s

\* ... and in this.cache, the agent's own Map.
handleErrorAgentCache(err, m) ==
  IF err.cls = "ConfigurationError" THEN m \ {CacheKey(RUC)} ELSE m

\* ------------------------------------------------------------ the TTL cache
\* A slip in MockCache.delete: clear() is called, every entry goes.
CacheClear(c, key) == [k \in DOMAIN c |-> Null]

\* A slip in MockCache.get: an entry is taken as expired at its expiry time.
CacheLiveBeforeExpiry(c, key, t) == c[key] # Null /\ t < c[key].expiry

\* MockCache: an entry is Null (no entry) or [data, expiry].
CacheLive(c, key, t) == c[key] # Null /\ ~(t > c[key].expiry)

CacheGet(c, key, t) == IF CacheLive(c, key, t) THEN c[key].data ELSE Null

\* get deletes the entry it finds absent or expired.
CacheAfterGet(c, key, t) == IF CacheLive(c, key, t) THEN c ELSE [c EXCEPT ![key] = Null]

CacheSet(c, key, data, ttl, t) == [c EXCEPT ![key] = [data |-> data, expiry |-> t + ttl]]

\* MockCache.has
CacheHas(c, key, t) == c[key] # Null /\ t <= c[key].expiry

\* MockCache.delete
CacheDelete(c, key) == [c EXCEPT ![key] = Null]

CacheKeys == {CacheKey(ruc) : ruc \in Taxpayers}

\* ================================================================== state
VARIABLES
  pc,            \* per processInvoice call: the await it is suspended at
  loc,           \* per call: invoiceData and the locals that live across awaits
  result,        \* per call: the ProcessResult returned (Null until then)
  thrown,        \* per call: the error processInvoice caught (Null if none)
  raised,        \* per call: that error as it was first thrown, before any catch
  trace,         \* per call: the remote calls issued and the gate's answers
  pre,           \* per call: session and caches as they were when it began,
                 \* what its first cache lookup found, and what its first
                 \* GET /configuracion/actual answered
  session,       \* this.session: NoSession (null) or a session token
  config,        \* this.config
  profile,       \* this.profile
  agentCache,    \* this.cache, the agent's own Map: the keys it holds
  cache,         \* the module-level TTL cache getCurrentConfiguration uses
  now,           \* the clock, in days
  remoteConfig,  \* what GET /configuracion/actual answers for the taxpayer
  remoteChanged, \* the remote configuration was changed outside the agent
  nextToken,     \* the next session token POST /login hands out
  retry,         \* one run of submitInvoiceWithRetry
  probe,         \* one error object and what isRetryableError said of it; or
                 \* the calls of mockLoginApi and what it answered
  managerCache,  \* CacheManager.cache, its private Map: the keys it holds
  stored,        \* per key: the latest set(key, data, ttl) and its time, unless
                 \* a delete(key) followed it
  lastOp,        \* the latest operation made on the caches and what it returned
  agents         \* per taxpayer: the fields of its own EkuatiaInvoiceAgent, where
                 \* agents of several taxpayers run side by side

agentVars ==
  << pc, loc, result, thrown, raised, trace, pre, session, config, profile, agentCache,
     cache, now, remoteConfig, remoteChanged, nextToken >>

cacheVars == << managerCache, stored, lastOp >>

vars == << agentVars, retry, probe, cacheVars, agents >>

NoLocals == [inv |-> Null, cached |-> Null, configData |-> Null, totals |-> Null, payload |-> Null]

\* A remote call as the trace records it: the operation and the session token
\* sent with it (NoSession: '' or null was sent).
Call(op, token) == [op |-> op, token |-> token, ans |-> TRUE]

\* An answer of the confirmation gate.
Answer(op, ans) == [op |-> op, token |-> NoSession, ans |-> ans]

\* CacheManager's Map is created empty, and no cache operation was made yet.
CachesUntouched ==
  /\ managerCache = {}
  /\ stored = [k \in CacheKeys |-> Null]
  /\ lastOp = Null

\* The fields of an EkuatiaInvoiceAgent after its constructor, and the cached
\* configuration it holds while getCurrentConfiguration awaits the remote one.
NewAgent == [session |-> NoSession, config |-> Null, profile |-> Null, lookup |-> Absent]

AgentInit ==
  /\ pc = [p \in Procs |-> "idle"]
  /\ loc = [p \in Procs |-> NoLocals]
  /\ result = [p \in Procs |-> Null]
  /\ thrown = [p \in Procs |-> Null]
  /\ raised = [p \in Procs |-> Null]
  /\ trace = [p \in Procs |-> <<>>]
  /\ pre = [p \in Procs |-> Null]
  /\ session = NoSession
  /\ config = Null
  /\ profile = Null
  /\ agentCache = {}
  /\ cache = [k \in CacheKeys |-> Null]
  /\ now = 0
  /\ remoteConfig \in {Null, OwnConfig}
  /\ remoteChanged = FALSE
  /\ nextToken = 1
  /\ agents = [ruc \in Taxpayers |-> NewAgent]

\* A slip in ensureConfigured: the setup runs whatever was retrieved.
needsSetupAlways(cfg) == TRUE

\* A slip in ensureConfigured: the test is the wrong way round.
needsSetupInverted(cfg) == cfg # Null

\* ensureConfigured: if (!this.config), the taxpayer has to be configured.
needsSetup(cfg) == cfg = Null

\* A slip in configureInvoicer: the answer is not looked at.
configurationDeclinedIgnored(confirmed) == FALSE

\* configureInvoicer: if (!confirmed) throw ConfigurationError.
configurationDeclined(confirmed) == ~confirmed

\* validateAndConfirmInvoice: if (!confirmed) throw InvoiceCreationError.
invoiceDeclined(confirmed) == ~confirmed

\* An error is thrown as original and reaches processInvoice's catch as err:
\* handleError(err), and the call returns.
Throw(p, original, err) ==
  /\ pc' = [pc EXCEPT ![p] = "done"]
  /\ result' = [result EXCEPT ![p] = handleErrorResult(err)]
  /\ thrown' = [thrown EXCEPT ![p] = err]
  /\ raised' = [raised EXCEPT ![p] = original]
  /\ session' = handleErrorSession(err, session)
  /\ agentCache' = handleErrorAgentCache(err, agentCache)
  /\ loc' = [loc EXCEPT ![p] = NoLocals]

\* An error thrown in the agent's own methods: no catch before processInvoice's.
Fail(p, err) == Throw(p, err, err)

\* What ekuatiaAPI.get may reject with: a network failure, a timeout, a
\* rejected token.
GetFailures ==
  { Err("Error", "fetch failed"),
    Err("TimeoutError", "TIMEOUT"),
    Err("AuthenticationError", "INVALID_CREDENTIALS") }

\* A slip in getCurrentConfiguration's catch: the error is thrown on as it is.
getCurrentConfigurationRethrows(error) == error

\* getCurrentConfiguration's catch: whatever was thrown in the try becomes a
\* ConfigurationRetrievalError whose message quotes it.
getCurrentConfigurationCatch(error) ==
  Err("ConfigurationRetrievalError",
      << "Unable to get current config: ", error.cls, error.message >>)

\* processInvoice is called: ensureConfigured calls getCurrentConfiguration,
\* which reads the cache and awaits GET /configuracion/actual.
Begin(p, invoiceData) ==
  /\ pc[p] = "idle"
  /\ loc' = [loc EXCEPT ![p] =
                [NoLocals EXCEPT !.inv = invoiceData,
                                 !.cached = CacheGet(cache, CacheKey(RUC), now)]]
  /\ cache' = CacheAfterGet(cache, CacheKey(RUC), now)
  /\ trace' = [trace EXCEPT ![p] = <<Call("fetchConfig", session)>>]
  /\ pre' = [pre EXCEPT ![p] =
               [session |-> session, cache |-> cache, agentCache |-> agentCache,
                cached |-> CacheGet(cache, CacheKey(RUC), now), fetched |-> Absent]]
  /\ pc' = [pc EXCEPT ![p] = "awaitFetch1"]
  /\ UNCHANGED << result, thrown, raised, session, config, profile, agentCache, now,
                  remoteConfig, remoteChanged, nextToken, retry, probe, cacheVars, agents >>

\* One call after the other: the caller awaits each processInvoice.
StartCall(p) ==
  /\ \A q \in Procs : q # p => pc[q] \in {"idle", "done"}
  /\ \A q \in Procs : q < p => pc[q] = "done"
  /\ \E invoiceData \in InvoiceInputs : Begin(p, invoiceData)

\* The caller does not await: a second processInvoice starts while the first
\* is suspended (or after it).
StartConcurrent(p) ==
  /\ \A q \in Procs : q < p => pc[q] # "idle"
  /\ \E invoiceData \in ConcurrentInputs : Begin(p, invoiceData)

\* validateAndConfirmInvoice, up to its await of requestInvoiceConfirmation.
ValidateAndConfirm(p, cfg) ==
  LET v == validateInvoiceAgainstConfig(loc[p].inv, cfg)
  IN  IF v # "ok"
        THEN /\ Fail(p, Err("InvoiceCreationError", v))
             /\ UNCHANGED trace
        ELSE /\ pc' = [pc EXCEPT ![p] = "awaitInvConfirm"]
             /\ loc' = [loc EXCEPT ![p].totals = calculateInvoiceTotals(loc[p].inv)]
             /\ UNCHANGED << result, thrown, raised, session, agentCache, trace >>

\* GET /configuracion/actual answers (or fails): the rest of
\* getCurrentConfiguration, then ensureConfigured up to its next await.
FetchResponds(p) ==
  /\ pc[p] \in {"awaitFetch1", "awaitFetch2"}
  /\ \E ok \in BOOLEAN :
       IF ~ok
         THEN /\ \E error \in GetFailures :
                   Throw(p, error, getCurrentConfigurationCatch(error))
              /\ UNCHANGED << trace, pre, config, cache >>
         ELSE LET systemConfig == remoteConfig
                  cached == loc[p].cached
                  returned == IF cached # Null
                                THEN IF ~configsMatch(cached, systemConfig)
                                       THEN systemConfig ELSE cached
                                ELSE systemConfig
              IN  /\ cache' = IF cached # Null THEN cache
                              ELSE CacheSet(cache, CacheKey(RUC), systemConfig, TTL_DAYS, now)
                  /\ config' = returned
                  /\ pre' = IF pc[p] = "awaitFetch1"
                              THEN [pre EXCEPT ![p].fetched = Present(systemConfig)]
                              ELSE pre
                  /\ IF pc[p] = "awaitFetch1" /\ needsSetup(returned)
                       THEN \* authenticate(): POST /login
                            /\ pc' = [pc EXCEPT ![p] = "awaitLogin"]
                            /\ trace' = [trace EXCEPT ![p] = Append(@, Call("login", NoSession))]
                            /\ UNCHANGED << loc, result, thrown, raised, session, agentCache >>
                       ELSE ValidateAndConfirm(p, returned)
  /\ UNCHANGED << profile, now, remoteConfig, remoteChanged, nextToken, retry, probe, cacheVars, agents >>

\* POST /login answers: authenticate() ends, retrieveProfile() awaits GET /perfil.
LoginResponds(p) ==
  /\ pc[p] = "awaitLogin"
  /\ \E out \in {"ok", "network"} \cup AuthenticationMessages :
       CASE out = "ok" ->
              /\ session' = nextToken
              /\ nextToken' = nextToken + 1
              /\ pc' = [pc EXCEPT ![p] = "awaitPerfil"]
              /\ trace' = [trace EXCEPT ![p] = Append(@, Call("perfil", nextToken))]
              /\ UNCHANGED << loc, result, thrown, raised, agentCache >>
         [] out = "network" ->
              /\ Fail(p, Err("Error", "fetch failed"))
              /\ UNCHANGED << trace, nextToken >>
         [] OTHER ->
              /\ Fail(p, Err("AuthenticationError", out))
              /\ UNCHANGED << trace, nextToken >>
  /\ UNCHANGED << pre, config, profile, cache, now, remoteConfig, remoteChanged,
                  retry, probe, cacheVars, agents >>

\* GET /perfil answers: retrieveProfile() ends, configureInvoicer() builds
\* configData and awaits requestConfigurationConfirmation.
PerfilResponds(p) ==
  /\ pc[p] = "awaitPerfil"
  /\ \E out \in {"ok", "network", "http"} :
       CASE out = "ok" ->
              /\ profile' = RemoteProfile
              /\ loc' = [loc EXCEPT ![p].configData = ConfigDataOf(RemoteProfile)]
              /\ pc' = [pc EXCEPT ![p] = "awaitCfgConfirm"]
              /\ UNCHANGED << result, thrown, raised, session, agentCache >>
         [] out = "network" ->
              /\ Fail(p, Err("Error", "fetch failed"))
              /\ UNCHANGED profile
         [] OTHER ->
              /\ Fail(p, Err("AuthenticationError", "Failed to retrieve profile"))
              /\ UNCHANGED profile
  /\ UNCHANGED << trace, pre, config, cache, now, remoteConfig, remoteChanged,
                  nextToken, retry, probe, cacheVars, agents >>

\* The user answers the configuration confirmation: configureInvoicer() throws,
\* or awaits POST /configuracion/guardar.
CfgConfirmResponds(p) ==
  /\ pc[p] = "awaitCfgConfirm"
  /\ \E ans \in BOOLEAN :
       IF ~configurationDeclined(ans)
         THEN /\ pc' = [pc EXCEPT ![p] = "awaitSave"]
              /\ trace' = [trace EXCEPT ![p] =
                             @ \o << Answer("configConfirmation", ans),
                                     Call("saveConfig", session) >>]
              /\ UNCHANGED << loc, result, thrown, raised, session, agentCache >>
         ELSE /\ Fail(p, Err("ConfigurationError", UserCancelledConfiguration))
              /\ trace' = [trace EXCEPT ![p] = Append(@, Answer("configConfirmation", ans))]
  /\ UNCHANGED << pre, config, profile, cache, now, remoteConfig, remoteChanged,
                  nextToken, retry, probe, cacheVars, agents >>

\* POST /configuracion/guardar answers: configureInvoicer() ends, and
\* ensureConfigured refreshes with a second getCurrentConfiguration.
SaveResponds(p) ==
  /\ pc[p] = "awaitSave"
  /\ \E out \in {"ok", "network"} \cup ConfigurationMessages :
       CASE out = "ok" ->
              /\ remoteConfig' = loc[p].configData
              /\ config' = loc[p].configData
              /\ loc' = [loc EXCEPT ![p].cached = CacheGet(cache, CacheKey(RUC), now)]
              /\ cache' = CacheAfterGet(cache, CacheKey(RUC), now)
              /\ trace' = [trace EXCEPT ![p] = Append(@, Call("fetchConfig", session))]
              /\ pc' = [pc EXCEPT ![p] = "awaitFetch2"]
              /\ UNCHANGED << result, thrown, raised, session, agentCache >>
         [] out = "network" ->
              /\ Fail(p, Err("Error", "fetch failed"))
              /\ UNCHANGED << remoteConfig, config, cache, trace >>
         [] OTHER ->
              /\ Fail(p, Err("ConfigurationError", out))
              /\ UNCHANGED << remoteConfig, config, cache, trace >>
  /\ UNCHANGED << pre, profile, now, remoteChanged, nextToken, retry, probe, cacheVars, agents >>

\* The user answers the invoice confirmation: validateAndConfirmInvoice throws,
\* or createInvoice builds the payload and awaits POST /documento/crear.
InvConfirmResponds(p) ==
  /\ pc[p] = "awaitInvConfirm"
  /\ \E ans \in BOOLEAN :
       CASE invoiceDeclined(ans) ->
              /\ Fail(p, Err("InvoiceCreationError", UserCancelledInvoice))
              /\ trace' = [trace EXCEPT ![p] = Append(@, Answer("invoiceConfirmation", ans))]
         [] ~invoiceDeclined(ans) /\ config = Null ->
              \* this.config!.issuer_data of null
              /\ Fail(p, Err("TypeError", "Cannot read properties of null"))
              /\ trace' = [trace EXCEPT ![p] = Append(@, Answer("invoiceConfirmation", ans))]
         [] OTHER ->
              /\ loc' = [loc EXCEPT ![p].payload = PayloadOf(loc[p].inv, config)]
              /\ trace' = [trace EXCEPT ![p] =
                             @ \o << Answer("invoiceConfirmation", ans),
                                     Call("submitInvoice", session) >>]
              /\ pc' = [pc EXCEPT ![p] = "awaitSubmit"]
              /\ UNCHANGED << result, thrown, raised, session, agentCache >>
  /\ UNCHANGED << pre, config, profile, cache, now, remoteConfig, remoteChanged,
                  nextToken, retry, probe, cacheVars, agents >>

\* POST /documento/crear answers: createInvoice returns or throws, and
\* processInvoice returns.
SubmitResponds(p) ==
  /\ pc[p] = "awaitSubmit"
  /\ \E out \in {"ok", "network"} \cup InvoiceMessages :
       CASE out = "ok" ->
              /\ pc' = [pc EXCEPT ![p] = "done"]
              /\ result' = [result EXCEPT ![p] =
                              [success |-> TRUE, documento_id |-> "DOC", cdc |-> "CDC"]]
              /\ loc' = [loc EXCEPT ![p] = NoLocals]
              /\ UNCHANGED << thrown, raised, session, agentCache >>
         [] out = "network" ->
              Fail(p, Err("Error", "fetch failed"))
         [] OTHER ->
              Fail(p, Err("InvoiceCreationError", out))
  /\ UNCHANGED << trace, pre, config, profile, cache, now, remoteConfig,
                  remoteChanged, nextToken, retry, probe, cacheVars, agents >>

\* Time passes.
Tick ==
  /\ now < MaxTicks * (TTL_DAYS + 1)
  /\ now' = now + TTL_DAYS + 1
  /\ UNCHANGED << pc, loc, result, thrown, raised, trace, pre, session, config, profile,
                  agentCache, cache, remoteConfig, remoteChanged, nextToken, retry, probe, cacheVars, agents >>

\* The taxpayer's configuration is changed in Marangatu, outside the agent.
RemoteChange ==
  /\ ~remoteChanged
  /\ remoteConfig # Null
  /\ remoteConfig' \in ChangedConfigs
  /\ remoteChanged' = TRUE
  /\ UNCHANGED << pc, loc, result, thrown, raised, trace, pre, session, config, profile,
                  agentCache, cache, now, nextToken, retry, probe, cacheVars, agents >>

Step(p) ==
  \/ FetchResponds(p)
  \/ LoginResponds(p)
  \/ PerfilResponds(p)
  \/ CfgConfirmResponds(p)
  \/ SaveResponds(p)
  \/ InvConfirmResponds(p)
  \/ SubmitResponds(p)

Init ==
  /\ AgentInit
  /\ retry = Null
  /\ probe = Null
  /\ CachesUntouched

Next ==
  \/ \E p \in Procs : StartCall(p)
  \/ \E p \in Procs : Step(p)
  \/ Tick
  \/ RemoteChange

Spec == Init /\ [][Next]_vars

\* Two processInvoice calls on one agent that may overlap.
NextConcurrent ==
  \/ \E p \in Procs : StartConcurrent(p)
  \/ \E p \in Procs : Step(p)

SpecConcurrent == Init /\ [][NextConcurrent]_vars

\* ================================================= submitInvoiceWithRetry
\* The error codes POST /documento/crear may fail with.
SubmitErrorCodes ==
  { "TIMEOUT", "TEMPORARY_UNAVAILABLE", "RATE_LIMITED", "SYSTEM_ERROR",
    "MONTO_NEGATIVO", "DOCUMENTO_DUPLICADO" }

\* A slip in isRetryable: every error that carries a code is retried.
isRetryableAnyCode(errorCode) == errorCode # "undefined"

\* isRetryable(errorCode) of the retry strategy.
isRetryable(errorCode) ==
  errorCode \in {"TIMEOUT", "TEMPORARY_UNAVAILABLE", "RATE_LIMITED"}

RECURSIVE Pow2(_)
Pow2(n) == IF n = 0 THEN 1 ELSE 2 * Pow2(n - 1)

\* Math.pow(2, attempt - 1) * 1000
backoffMs(attempt) == Pow2(attempt - 1) * BackoffBaseMs

\* The call submitInvoiceWithRetry(invoiceData, maxRetries): the loop starts
\* with attempt = 1 and awaits the first POST.
RetryStart(maxRetries) ==
  [ state |-> "posting",        \* posting | sleeping | returned | thrown
    maxRetries |-> maxRetries,
    attempt |-> 1,
    posts |-> 1,                \* POSTs issued so far
    errors |-> <<>>,            \* the codes the POSTs failed with, in order
    sleeps |-> <<>>,            \* the backoff waits, in ms, in order
    lastError |-> "undefined",
    outcome |-> "pending",      \* "response", or the code of the error thrown
    cancelled |-> Absent ]      \* the POSTs issued when the caller gave up, if it did

\* The catch block: lastError = error, then sleep and continue, or rethrow.
AfterFailure(r, code) ==
  IF isRetryable(code)
    THEN [r EXCEPT !.state = "sleeping",
                   !.errors = Append(@, code),
                   !.lastError = code,
                   !.sleeps = Append(@, backoffMs(r.attempt))]
    ELSE [r EXCEPT !.state = "thrown",
                   !.errors = Append(@, code),
                   !.lastError = code,
                   !.outcome = code]

\* A slip in the loop: the attempt is not counted, the loop never ends.
AfterSleepUncounted(r) == [r EXCEPT !.state = "posting", !.posts = @ + 1]

\* continue: attempt++, and the loop test; after the loop, throw lastError.
AfterSleep(r) ==
  IF r.attempt + 1 <= r.maxRetries
    THEN [r EXCEPT !.state = "posting", !.attempt = @ + 1, !.posts = @ + 1]
    ELSE [r EXCEPT !.state = "thrown", !.attempt = @ + 1, !.outcome = r.lastError]

RetryInit ==
  /\ AgentInit
  /\ probe = Null
  /\ CachesUntouched
  /\ \E maxRetries \in 1 .. MaxRetriesBound : retry = RetryStart(maxRetries)

\* The POST answers with a response: return response.
PostSucceeds ==
  /\ retry.state = "posting"
  /\ retry' = [retry EXCEPT !.state = "returned", !.outcome = "response"]
  /\ UNCHANGED << agentVars, probe, cacheVars, agents >>

\* The POST fails with an error carrying a code.
PostFails ==
  /\ retry.state = "posting"
  /\ \E code \in SubmitErrorCodes : retry' = AfterFailure(retry, code)
  /\ UNCHANGED << agentVars, probe, cacheVars, agents >>

\* The backoff sleep ends.
SleepEnds ==
  /\ retry.state = "sleeping"
  /\ retry' = AfterSleep(retry)
  /\ UNCHANGED << agentVars, probe, cacheVars, agents >>

RetryNext == PostSucceeds \/ PostFails \/ SleepEnds

SpecRetry == RetryInit /\ [][RetryNext]_vars

\* ======================================================== types/errors.ts
\* The error objects the module's classes and factories construct, as
\* [base, cls, code]: base says the object is an EkuatiaBaseError.
ErrorObject(base, cls, code) == [base |-> base, cls |-> cls, code |-> code]

AuthenticationErrorCodes == {"INVALID_CREDENTIALS", "APPROVAL_NOT_FOUND", "RUC_INACTIVE", "SYSTEM_ERROR"}

ConfigurationErrorCodes == {"MULTIPLE_ESTABLISHMENTS", "CERTIFICATE_MISSING", "CSC_INVALID", "SYSTEM_ERROR"}

InvoiceErrorCodes ==
  {"INVALID_DATOS_RECEPTOR", "MONTO_NEGATIVO", "DOCUMENTO_DUPLICADO", "TIMBRADO_EXPIRED", "SYSTEM_ERROR"}

\* The codes an ErrorResponse from the API may carry; createAuthenticationError
\* casts whatever code the response has ('UNKNOWN_AUTH_ERROR' when it has none).
ResponseCodes ==
  AuthenticationErrorCodes \cup ConfigurationErrorCodes \cup InvoiceErrorCodes
  \cup {"TIMEOUT", "TEMPORARY_UNAVAILABLE", "RATE_LIMITED", "UNKNOWN_AUTH_ERROR", "UNKNOWN_ERROR"}

ErrorObjects ==
  {ErrorObject(TRUE, "AuthenticationError", c) : c \in ResponseCodes}
  \cup {ErrorObject(TRUE, "ConfigurationError", c) : c \in ConfigurationErrorCodes}
  \cup {ErrorObject(TRUE, "InvoiceCreationError", c) : c \in InvoiceErrorCodes}
  \cup {ErrorObject(TRUE, "ConfigurationRetrievalError", "CONFIGURATION_RETRIEVAL_FAILED")}
  \cup {ErrorObject(TRUE, "SystemError", "SYSTEM_ERROR")}
  \cup {ErrorObject(TRUE, "TimeoutError", "TIMEOUT")}
  \cup {ErrorObject(FALSE, "Error", c) : c \in {"undefined"}}
  \cup {ErrorObject(FALSE, "ErrorResponse", c) : c \in ResponseCodes}

\* A slip in EkuatiaBaseError.isRetryable: the guide's list of three codes.
baseIsRetryableThreeCodes(error) ==
  error.code \in {"TIMEOUT", "TEMPORARY_UNAVAILABLE", "RATE_LIMITED"}

\* EkuatiaBaseError.isRetryable
baseIsRetryable(error) ==
  error.code \in {"TIMEOUT", "TEMPORARY_UNAVAILABLE", "RATE_LIMITED", "SYSTEM_ERROR"}

\* isRetryableError
isRetryableError(error) == error.base /\ baseIsRetryable(error)

\* getErrorCode
getErrorCode(error) ==
  IF error.base THEN error.code
  ELSE IF error.cls = "ErrorResponse" THEN error.code ELSE "UNKNOWN_ERROR"

ProbeInit ==
  /\ AgentInit
  /\ retry = Null
  /\ CachesUntouched
  /\ \E e \in ErrorObjects :
       probe = [error |-> e, asked |-> FALSE, retryable |-> FALSE, code |-> "unread"]

\* isRetryableError(error) is called.
AskRetryable ==
  /\ ~probe.asked
  /\ probe' = [probe EXCEPT !.asked = TRUE, !.retryable = isRetryableError(probe.error)]
  /\ UNCHANGED << agentVars, retry, cacheVars, agents >>

\* getErrorCode(error) is called.
AskErrorCode ==
  /\ probe.code = "unread"
  /\ probe' = [probe EXCEPT !.code = getErrorCode(probe.error)]
  /\ UNCHANGED << agentVars, retry, cacheVars, agents >>

ProbeNext == AskRetryable \/ AskErrorCode

SpecErrors == ProbeInit /\ [][ProbeNext]_vars

\* ================================================================= claims
RemoteOps == {"fetchConfig", "login", "perfil", "saveConfig", "submitInvoice"}

TokenOps == {"fetchConfig", "saveConfig", "submitInvoice"}

CountOp(p, op) == Cardinality({i \in DOMAIN trace[p] : trace[p][i].op = op})

Issued(p, op) == \E i \in DOMAIN trace[p] : trace[p][i].op = op

Succeeded(p) == pc[p] = "done" /\ result[p].success

\* The latest call that was started.
Latest(p) == pc[p] # "idle" /\ \A q \in Procs : q > p => pc[q] = "idle"

\* C1: within one processInvoice call, POST /configuracion/guardar is issued
\* only after the gate answered true to the configuration proposal, and POST
\* /documento/crear only after it answered true to the invoice proposal.
C1_WritesOnlyAfterApproval ==
  \A p \in Procs : \A i \in DOMAIN trace[p] :
    /\ trace[p][i].op = "saveConfig" =>
         /\ \E j \in 1 .. (i - 1) : trace[p][j] = Answer("configConfirmation", TRUE)
         /\ \A j \in 1 .. (i - 1) : trace[p][j] # Answer("configConfirmation", FALSE)
    /\ trace[p][i].op = "submitInvoice" =>
         /\ \E j \in 1 .. (i - 1) : trace[p][j] = Answer("invoiceConfirmation", TRUE)
         /\ \A j \in 1 .. (i - 1) : trace[p][j] # Answer("invoiceConfirmation", FALSE)

\* A call that configured the taxpayer and submitted the invoice.
C1_Witness ==
  \E p \in Procs : Issued(p, "saveConfig") /\ Issued(p, "submitInvoice")

\* C2: a call in which the gate answered false ends with the UserCancelled
\* kind, issued no saveConfig and no submitInvoice, and left the session and
\* the configuration cache as they were when it began.
C2_DenialIsUserCancelledWithoutEffects ==
  \A p \in Procs :
    (pc[p] = "done" /\ Latest(p) /\ \E i \in DOMAIN trace[p] : ~trace[p][i].ans) =>
      /\ thrown[p].cls = "UserCancelled"
      /\ ~Issued(p, "saveConfig")
      /\ ~Issued(p, "submitInvoice")
      /\ session = pre[p].session
      /\ cache = pre[p].cache
      /\ agentCache = pre[p].agentCache

TransportRetryableCodes == {"TIMEOUT", "TEMPORARY_UNAVAILABLE", "RATE_LIMITED"}

\* C4: when every attempt of submitInvoiceWithRetry (maxRetries = 3) fails
\* with a retryable transport error, it has made exactly 3 POSTs and exactly
\* two waits, of 1 s and 2 s, when it throws the error it last caught.
C4_ThreeAttemptsTwoWaits ==
  ( /\ retry # Null /\ retry.state = "thrown"
    /\ retry.maxRetries = DefaultMaxRetries
    /\ \A i \in DOMAIN retry.errors : retry.errors[i] \in TransportRetryableCodes ) =>
      /\ retry.posts = 3
      /\ retry.sleeps = << BackoffBaseMs, 2 * BackoffBaseMs >>
      /\ retry.outcome = retry.errors[Len(retry.errors)]

C5_State ==
  retry # Null =>
    /\ \A i \in DOMAIN retry.errors :
         retry.errors[i] \notin TransportRetryableCodes =>
           /\ i = Len(retry.errors)
           /\ retry.state = "thrown"
           /\ retry.outcome = retry.errors[i]
           /\ retry.posts = i
           /\ Len(retry.sleeps) = i - 1
    /\ retry.state = "returned" =>
         /\ retry.outcome = "response"
         /\ retry.posts = Len(retry.errors) + 1
         /\ Len(retry.sleeps) = Len(retry.errors)

\* C5: a submission attempt that fails with a non-retryable error is the last:
\* no wait and no POST follows it and that same error is thrown; an attempt
\* that succeeds is the last too. Once submitInvoiceWithRetry has returned or
\* thrown, nothing more happens.
C5_StopsAfterNonRetryableOrSuccess ==
  /\ []C5_State
  /\ [][(retry # Null /\ retry.state \in {"returned", "thrown"}) => retry' = retry]_vars

\* A second attempt, made after a retryable failure, failed with a
\* non-retryable error and the function threw it.
C5_Witness ==
  /\ retry # Null /\ retry.state = "thrown" /\ Len(retry.errors) = 2
  /\ retry.errors[2] = "DOCUMENTO_DUPLICADO"

\* C6: POST /documento/crear is awaited only for a request whose line items
\* sum to resumen.subtotal + resumen.total_iva and to resumen.total_general.
C6_SubmitOnlyIfReconciled ==
  \A p \in Procs : pc[p] = "awaitSubmit" => Reconciles(loc[p].inv)

\* C7: a processInvoice call whose request does not reconcile issues no
\* remote call at all.
C7_NoRemoteCallUnlessReconciled ==
  \A p \in Procs :
    (loc[p].inv # Null /\ ~Reconciles(loc[p].inv)) =>
      \A i \in DOMAIN trace[p] : trace[p][i].op \notin RemoteOps

InConfigure(p) ==
  pc[p] \in {"awaitFetch1", "awaitLogin", "awaitPerfil", "awaitCfgConfirm", "awaitSave", "awaitFetch2"}

\* C9: of two overlapping calls for the taxpayer at most one is inside the
\* check-cache-then-refresh sequence at a time, and together they make at most
\* one login.
C9_OneConfigureInFlight ==
  /\ Cardinality({p \in Procs : InConfigure(p)}) <= 1
  /\ CountOp(1, "login") + CountOp(2, "login") <= 1

\* C10: every remote call that carries the session token is issued while the
\* agent holds a session (it is Authenticated).
C10_TokenCallsOnlyWhenAuthenticated ==
  \A p \in Procs : \A i \in DOMAIN trace[p] :
    trace[p][i].op \in TokenOps => trace[p][i].token # NoSession

\* What a lookup of the taxpayer's configuration in the cache finds now.
CachedNow == CacheGet(cache, CacheKey(RUC), now)

\* C11: after getCurrentConfiguration found an unexpired cached configuration
\* that differs from the remote one and returned the remote one, the cache
\* entry of the taxpayer (while it lives) holds the remote configuration.
C11_MismatchRefreshesCache ==
  \A p \in Procs :
    ( /\ pc[p] = "awaitInvConfirm"
      /\ loc[p].cached # Null
      /\ ~configsMatch(loc[p].cached, config)
      /\ config = remoteConfig ) =>
        (CacheLive(cache, CacheKey(RUC), now) => CachedNow = remoteConfig)

\* The reconciliation fetch of call p has just failed while
\* getCurrentConfiguration held a cached copy.
FetchFailsWithCachedCopy(p) ==
  /\ pc[p] \in {"awaitFetch1", "awaitFetch2"}
  /\ loc[p].cached # Null
  /\ raised'[p] \in GetFailures

\* C12: when GET /configuracion/actual fails while a cached configuration
\* exists, getCurrentConfiguration throws ConfigurationRetrievalError: the call
\* ends with CONFIGURATION_UNAVAILABLE, the cached copy is not handed to
\* this.config, and nothing is confirmed or submitted with it.
C12_FetchFailureNeverServesCachedCopy ==
  [][\A p \in Procs :
       FetchFailsWithCachedCopy(p) =>
         /\ thrown'[p].cls = "ConfigurationRetrievalError"
         /\ result'[p] = [success |-> FALSE, error |-> "CONFIGURATION_UNAVAILABLE"]
         /\ pc'[p] = "done"
         /\ config' = config
         /\ trace'[p] = trace[p]]_vars

\* The second call found the configuration the first one had cached, its fetch
\* timed out, and it ended with ConfigurationRetrievalError.
C12_Witness ==
  /\ now = 0
  /\ pre[2] # Null /\ pre[2].cache[CacheKey(RUC)] # Null
  /\ pre[2].cache[CacheKey(RUC)].data = OwnConfig
  /\ pc[2] = "done"
  /\ raised[2] = Err("TimeoutError", "TIMEOUT")
  /\ thrown[2].cls = "ConfigurationRetrievalError"

\* The error classes that stand for the kinds of the error taxonomy.
ClassifiedClasses ==
  { "AuthenticationError", "ConfigurationError", "ConfigurationRetrievalError",
    "InvoiceCreationError", "TimeoutError", "SystemError" }

\* C13: a classified error that reaches processInvoice's catch, and from there
\* the caller, is of the class it was first thrown with.
C13_ErrorKeepsItsClass ==
  \A p \in Procs :
    (pc[p] = "done" /\ raised[p] # Null /\ raised[p].cls \in ClassifiedClasses) =>
      thrown[p].cls = raised[p].cls

\* POST /login of call p was answered with one of the three refusals.
LoginRefused(p) ==
  /\ pc[p] = "done"
  /\ raised[p] # Null
  /\ raised[p].cls = "AuthenticationError"
  /\ raised[p].message \in AuthenticationMessages
  /\ Issued(p, "login")
  /\ ~Issued(p, "perfil")

\* C14: a call whose login was refused leaves the agent without a session,
\* ends with an AuthenticationError that says which refusal it was, and hands
\* that sub-reason to the caller; it made one login call and fetched no
\* configuration.
C14_LoginRefusalEndsCall ==
  \A p \in Procs :
    (LoginRefused(p) /\ Latest(p)) =>
      /\ session = NoSession
      /\ thrown[p] = raised[p]
      /\ result[p].error \in AuthenticationMessages
      /\ CountOp(p, "login") = 1
      /\ CountOp(p, "fetchConfig") = 0

\* The session tokens the remote calls of call p carried.
TokensOf(p) ==
  {trace[p][i].token : i \in DOMAIN trace[p]} \ {NoSession}

\* C15: once the first call has ended with an AuthenticationError, the agent
\* holds no session when the second call begins, and every token-bearing remote
\* call of the second call comes after a login of that call and carries a token
\* the first call never used.
C15_ReloginAfterAuthenticationFailure ==
  ( /\ pc[1] = "done" /\ thrown[1] # Null
    /\ thrown[1].cls = "AuthenticationError"
    /\ pc[2] # "idle" ) =>
      /\ pre[2].session = NoSession
      /\ \A i \in DOMAIN trace[2] :
           trace[2][i].op \in TokenOps =>
             /\ \E j \in 1 .. (i - 1) : trace[2][j].op = "login"
             /\ trace[2][i].token \notin TokensOf(1) \cup {NoSession}

\* C16: at the moment a call ends with a ConfigurationError, the caller gets
\* CONFIGURATION_INVALID and the cache getCurrentConfiguration reads holds no
\* configuration for the taxpayer (the next lookup is a miss).
C16_ConfigurationErrorEvictsLookupCache ==
  [][\A p \in Procs :
       ( /\ thrown[p] = Null /\ thrown'[p] # Null
         /\ thrown'[p].cls = "ConfigurationError" ) =>
           /\ result'[p].error = "CONFIGURATION_INVALID"
           /\ CacheGet(cache', CacheKey(RUC), now') = Null]_vars

\* Call p went into the setup (it logged in) and did not get as far as the
\* refresh after a successful save.
SetupNotCompleted(p) == Issued(p, "login") /\ CountOp(p, "fetchConfig") < 2

CacheValues == {OwnConfig, RenewedConfig}

\* set's ttl argument: given (Present) or left to the default (Absent).
TtlChoices == {Absent, Present(CacheStepDays), Present(2 * CacheStepDays)}

\* set(key, data, ttlMs = 7776000000)
TtlGiven(ttl) == IF ttl = Absent THEN DefaultTtlDays ELSE ttl[1]

\* type CacheInvalidationTrigger
CacheInvalidationTriggers ==
  { "ruc_status_change", "establishment_update", "csc_update",
    "timbrado_expiration", "configuration_notification" }

\* Everything but the cache, the clock and CacheManager: no agent is running.
agentIdle ==
  << pc, loc, result, thrown, raised, trace, pre, session, config, profile,
     agentCache, remoteConfig, remoteChanged, nextToken, retry, probe >>

Did(op, key, returned) == [op |-> op, key |-> key, returned |-> returned]

MockSet(key) ==
  \E data \in CacheValues, ttl \in TtlChoices :
    /\ cache' = CacheSet(cache, key, data, TtlGiven(ttl), now)
    /\ stored' = [stored EXCEPT ![key] = [data |-> data, at |-> now, ttl |-> ttl]]
    /\ lastOp' = Did("set", key, Null)
    /\ UNCHANGED << now, managerCache, agentIdle, agents >>

MockGet(key) ==
  /\ cache' = CacheAfterGet(cache, key, now)
  /\ lastOp' = Did("get", key, CacheGet(cache, key, now))
  /\ UNCHANGED << now, managerCache, stored, agentIdle, agents >>

MockHas(key) ==
  /\ lastOp' = Did("has", key, CacheHas(cache, key, now))
  /\ UNCHANGED << now, cache, managerCache, stored, agentIdle, agents >>

MockDelete(key) ==
  /\ cache' = CacheDelete(cache, key)
  /\ stored' = [stored EXCEPT ![key] = Null]
  /\ lastOp' = Did("delete", key, cache[key] # Null)
  /\ UNCHANGED << now, managerCache, agentIdle, agents >>

\* CacheManager.invalidateConfig(ruc, trigger): this.cache.delete, and a log line.
invalidateConfig(ruc, trigger) ==
  /\ managerCache' = managerCache \ {CacheKey(ruc)}
  /\ lastOp' = Did("invalidateConfig", CacheKey(ruc), trigger)
  /\ UNCHANGED << now, cache, stored, agentIdle, agents >>

CacheClock ==
  /\ now + CacheStepDays <= MaxClock
  /\ now' = now + CacheStepDays
  /\ lastOp' = Did("clock", CacheKey(RUC), Null)
  /\ UNCHANGED << cache, managerCache, stored, agentIdle, agents >>

CacheInit ==
  /\ AgentInit
  /\ retry = Null
  /\ probe = Null
  /\ CachesUntouched

CacheNext ==
  \/ \E key \in CacheKeys : MockSet(key)
  \/ \E key \in CacheKeys : MockGet(key)
  \/ \E key \in CacheKeys : MockHas(key)
  \/ \E key \in CacheKeys : MockDelete(key)
  \/ \E trigger \in CacheInvalidationTriggers : invalidateConfig(RUC, trigger)
  \/ CacheClock

SpecCache == CacheInit /\ [][CacheNext]_vars

\* The entry the latest set left for the key is within its time to live.
WithinTtl(key) ==
  /\ stored[key] # Null
  /\ now <= stored[key].at + (IF stored[key].ttl = Absent THEN 90 ELSE stored[key].ttl[1])

\* C18: right after invalidateConfig(ruc, trigger), whatever the trigger, the
\* configuration cache holds no entry for the taxpayer (get finds nothing, has
\* is false), and CacheManager's own Map holds none either, so that a second
\* invalidateConfig changes nothing.
C18_InvalidateRemovesEntry ==
  (lastOp # Null /\ lastOp.op = "invalidateConfig") =>
    /\ lastOp.returned \in CacheInvalidationTriggers
    /\ lastOp.key \notin managerCache
    /\ CacheGet(cache, lastOp.key, now) = Null
    /\ ~CacheHas(cache, lastOp.key, now)

\* C19: get returns the data of the latest set of the key, and has answers
\* true, at every time up to the time of that set plus its time to live (90
\* days when none was given); after that time, or when the key was never set or
\* was deleted, get returns null and has answers false.
C19_EntryLivesExactlyItsTtl ==
  lastOp # Null =>
    /\ lastOp.op = "get" =>
         lastOp.returned = (IF WithinTtl(lastOp.key) THEN stored[lastOp.key].data ELSE Null)
    /\ lastOp.op = "has" => (lastOp.returned <=> WithinTtl(lastOp.key))

\* A get at the very end of the time to live of an entry that overwrote an
\* earlier one returned its data.
C19_Witness ==
  /\ lastOp # Null /\ lastOp.op = "get"
  /\ stored[lastOp.key] # Null
  /\ stored[lastOp.key].at > 0
  /\ stored[lastOp.key].ttl = Absent
  /\ now = stored[lastOp.key].at + 90
  /\ lastOp.returned = stored[lastOp.key].data

\* C20: the confirmation of an invoice is asked for, and the invoice is
\* submitted, only when establecimiento and punto_expedicion are each absent
\* or 1.
C20_OnlyOneOrAbsentReachesConfirmation ==
  \A p \in Procs :
    pc[p] \in {"awaitInvConfirm", "awaitSubmit"} =>
      /\ loc[p].inv.establecimiento \in {Absent, Present(1)}
      /\ loc[p].inv.punto_expedicion \in {Absent, Present(1)}

\* Call p found an unexpired cached configuration, its fetch of the
\* remote configuration answered, and the two matched: getCurrentConfiguration
\* returned the cached copy to this.config.
HitMatched(p) ==
  /\ pre[p] # Null
  /\ pre[p].cached # Null
  /\ pre[p].fetched # Absent
  /\ configsMatch(pre[p].cached, pre[p].fetched[1])

\* The operations of call p, in the order they were made.
OpsOf(p) == [i \in DOMAIN trace[p] |-> trace[p][i].op]

\* C21: a call whose cache lookup was a hit that matched the remote
\* configuration made no login, no profile fetch, no configuration
\* confirmation and no saveConfig: it made the one reconciliation fetch, then
\* the invoice confirmation, then the submission, and nothing else.
C21_MatchingHitSkipsSetup ==
  \A p \in Procs :
    HitMatched(p) =>
      /\ \E n \in 1 .. 3 :
           OpsOf(p) = SubSeq(<<"fetchConfig", "invoiceConfirmation", "submitInvoice">>, 1, n)
      /\ Succeeded(p) => Len(trace[p]) = 3

\* The second call found the configuration the first one cached, the remote
\* configuration matched it, and the invoice was submitted.
C21_Witness ==
  /\ HitMatched(2)
  /\ Succeeded(2)
  /\ OpsOf(2) = <<"fetchConfig", "invoiceConfirmation", "submitInvoice">>

\* ============================================================ cancellation
\* processInvoice(invoiceData) and submitInvoiceWithRetry(invoiceData,
\* maxRetries) take no signal, and requestConfigurationConfirmation,
\* requestInvoiceConfirmation and sleep are awaited without one: a caller who
\* cancels can only stop waiting for the promise. The trace records when.
Cancelled(at, cacheThen) ==
  [op |-> "cancel", token |-> NoSession, ans |-> TRUE, at |-> at, cache |-> cacheThen]

\* The caller gives up on call p while it is suspended at an await.
CallerCancels(p) ==
  /\ retry = Null
  /\ pc[p] \notin {"idle", "done"}
  /\ ~Issued(p, "cancel")
  /\ trace' = [trace EXCEPT ![p] = Append(@, Cancelled(pc[p], cache))]
  /\ UNCHANGED << pc, loc, result, thrown, raised, pre, session, config, profile,
                  agentCache, cache, now, remoteConfig, remoteChanged, nextToken,
                  retry, probe, cacheVars, agents >>

\* The caller gives up on submitInvoiceWithRetry during a backoff sleep.
CallerCancelsBackoff ==
  /\ retry # Null
  /\ retry.state = "sleeping"
  /\ retry.cancelled = Absent
  /\ retry' = [retry EXCEPT !.cancelled = Present(retry.posts)]
  /\ UNCHANGED << agentVars, probe, cacheVars, agents >>

\* One processInvoice call after the other, in the runs that drive either the
\* agent or one submitInvoiceWithRetry run.
StartAlone(p) ==
  /\ retry = Null
  /\ \A q \in Procs : q # p => pc[q] \in {"idle", "done"}
  /\ \A q \in Procs : q < p => pc[q] = "done"
  /\ \E invoiceData \in ConcurrentInputs : Begin(p, invoiceData)

\* Either the agent is driven, or one submitInvoiceWithRetry run.
CancelInit ==
  /\ AgentInit
  /\ probe = Null
  /\ CachesUntouched
  /\ retry \in {Null, RetryStart(DefaultMaxRetries)}

CancelNext ==
  \/ \E p \in Procs : StartAlone(p)
  \/ \E p \in Procs : Step(p)
  \/ \E p \in Procs : CallerCancels(p)
  \/ (retry # Null /\ PostSucceeds)
  \/ (retry # Null /\ PostFails)
  \/ (retry # Null /\ SleepEnds)
  \/ CallerCancelsBackoff

SpecCancel == CancelInit /\ [][CancelNext]_vars

\* C22: after the caller cancelled while a confirmation was pending, the call
\* issues no remote call and the configuration cache is as it was at the
\* cancellation; after the caller cancelled during a backoff wait, no further
\* POST /documento/crear is made.
C22_NothingAfterCancellation ==
  /\ \A p \in Procs : \A i \in DOMAIN trace[p] :
       (trace[p][i].op = "cancel" /\ trace[p][i].at \in {"awaitCfgConfirm", "awaitInvConfirm"}) =>
         /\ \A j \in (i + 1) .. Len(trace[p]) : trace[p][j].op \notin RemoteOps
         /\ Latest(p) => cache = trace[p][i].cache
  /\ (retry # Null /\ retry.cancelled # Absent) => retry.posts = retry.cancelled[1]

\* Call p ended the session: it ended with an AuthenticationError, on which
\* handleError drops the session.
SessionEnded(p) ==
  /\ pc[p] = "done"
  /\ Latest(p)
  /\ thrown[p] # Null
  /\ thrown[p].cls = "AuthenticationError"

\* C23: once a call has ended the session, the agent holds no session token, no
\* profile and no configuration with a resolved modality; and the configuration
\* cache never holds the profile or a session token.
C23_SessionEndClearsSessionScope ==
  /\ \A p \in Procs :
       SessionEnded(p) =>
         /\ session = NoSession
         /\ profile = Null
         /\ config = Null
  /\ \A k \in CacheKeys :
       (cache[k] # Null /\ cache[k].data # Null) =>
         /\ cache[k].data # RemoteProfile
         /\ "session_token" \notin DOMAIN cache[k].data

\* An amount of the request is zero or negative (the tax of an item may be 0).
HasNonPositiveAmount(invoiceData) ==
  \E i \in DOMAIN invoiceData.items :
    \/ invoiceData.items[i].cantidad <= 0
    \/ invoiceData.items[i].precio_unitario <= 0
    \/ invoiceData.items[i].monto_total <= 0

\* C24: a request with a non-positive amount never gets to the invoice
\* confirmation or to the submission: the call ends with a validation failure
\* first; and the request of the happy path (quantity 1, unit price 500000, tax
\* 0, summary {500000, 0, 500000}) is never rejected by the validation.
C24_NonPositiveAmountRejected ==
  [][\A p \in Procs :
       loc[p].inv # Null =>
         /\ HasNonPositiveAmount(loc[p].inv) =>
              pc'[p] \notin {"awaitInvConfirm", "awaitSubmit"}
         /\ (loc[p].inv = ExampleInvoice /\ pc[p] \in {"awaitFetch1", "awaitFetch2"}
               /\ pc'[p] = "done") =>
              thrown'[p].cls # "InvoiceCreationError"]_vars

\* The single-establishment rule on a configuration (Null: no configuration).
SingleEstablishment(c) ==
  c # Null => (c.establecimiento = 1 /\ c.punto_expedicion = 1)

\* C25: the configuration the agent holds as current, the one it proposes to
\* the user, and the one in the cache each have establecimiento 1 and
\* punto_expedicion 1; and a call whose fetch of the remote configuration
\* answered one that breaks the rule goes on neither to the invoice
\* confirmation nor to the submission, and does not succeed.
C25_OnlySingleEstablishmentConfigs ==
  /\ SingleEstablishment(config)
  /\ \A p \in Procs : SingleEstablishment(loc[p].configData)
  /\ \A k \in CacheKeys : cache[k] # Null => SingleEstablishment(cache[k].data)
  /\ \A p \in Procs :
       (pre[p] # Null /\ pre[p].fetched # Absent /\ ~SingleEstablishment(pre[p].fetched[1])) =>
         /\ pc[p] \notin {"awaitInvConfirm", "awaitSubmit"}
         /\ ~Succeeded(p)

\* C26: the totals shown in the invoice confirmation are the sums over the
\* line items, and the summary of the payload that is submitted after the
\* approval equals those confirmed totals.
C26_SubmittedSummaryIsConfirmedTotals ==
  \A p \in Procs :
    /\ pc[p] \in {"awaitInvConfirm", "awaitSubmit"} =>
         /\ loc[p].totals.subtotal = SumSubtotal(loc[p].inv.items)
         /\ loc[p].totals.total_iva = SumIva(loc[p].inv.items)
         /\ loc[p].totals.total_general = loc[p].totals.subtotal + loc[p].totals.total_iva
    /\ pc[p] = "awaitSubmit" => loc[p].payload.resumen = loc[p].totals

\* ====================================================== several taxpayers
\* One EkuatiaInvoiceAgent per taxpayer, each with its own fields, over the one
\* module-level cache and the one CacheManager. A step is one handler run of
\* the agent of one taxpayer, or one cache operation on one taxpayer's key; the
\* steps of different taxpayers interleave freely.

\* getCurrentConfiguration(ruc, ...) reads the cache and awaits the remote
\* configuration.
AgentLookup(ruc) ==
  /\ agents[ruc].lookup = Absent
  /\ agents' = [agents EXCEPT ![ruc].lookup = Present(CacheGet(cache, CacheKey(ruc), now))]
  /\ cache' = CacheAfterGet(cache, CacheKey(ruc), now)
  /\ lastOp' = Did("lookup", CacheKey(ruc), Null)
  /\ UNCHANGED << now, managerCache, stored, agentIdle >>

\* GET /configuracion/actual answers: the reconciliation with the cached copy,
\* or the cache.set after a miss; ensureConfigured assigns this.config.
AgentFetched(ruc) ==
  /\ agents[ruc].lookup # Absent
  /\ \E systemConfig \in {Null, OwnConfig, RenewedConfig} :
       LET cached == agents[ruc].lookup[1]
           returned == IF cached # Null
                         THEN IF ~configsMatch(cached, systemConfig)
                                THEN systemConfig ELSE cached
                         ELSE systemConfig
       IN  /\ cache' = IF cached # Null THEN cache
                       ELSE CacheSet(cache, CacheKey(ruc), systemConfig, TTL_DAYS, now)
           /\ agents' = [agents EXCEPT ![ruc].config = returned, ![ruc].lookup = Absent]
           /\ lastOp' = Did("refresh", CacheKey(ruc), Null)
  /\ UNCHANGED << now, managerCache, stored, agentIdle >>

\* authenticate(): this.session = data.session_token
AgentLogin(ruc) ==
  /\ agents[ruc].session = NoSession
  /\ agents' = [agents EXCEPT ![ruc].session = 1]
  /\ lastOp' = Did("login", CacheKey(ruc), Null)
  /\ UNCHANGED << now, cache, managerCache, stored, agentIdle >>

\* retrieveProfile(): this.profile = await response.json()
AgentProfile(ruc) ==
  /\ agents[ruc].session # NoSession
  /\ agents' = [agents EXCEPT ![ruc].profile = RemoteProfile]
  /\ lastOp' = Did("perfil", CacheKey(ruc), Null)
  /\ UNCHANGED << now, cache, managerCache, stored, agentIdle >>

\* configureInvoicer(), approved and saved: this.config = configData
AgentConfigured(ruc) ==
  /\ agents[ruc].profile # Null
  /\ agents' = [agents EXCEPT ![ruc].config = ConfigDataOf(agents[ruc].profile)]
  /\ lastOp' = Did("saveConfig", CacheKey(ruc), Null)
  /\ UNCHANGED << now, cache, managerCache, stored, agentIdle >>

\* handleError(AuthenticationError): this.session = null
AgentSessionInvalidated(ruc) ==
  /\ agents' = [agents EXCEPT ![ruc].session = handleErrorSession(Err("AuthenticationError", "INVALID_CREDENTIALS"), @)]
  /\ lastOp' = Did("sessionInvalidated", CacheKey(ruc), Null)
  /\ UNCHANGED << now, cache, managerCache, stored, agentIdle >>

\* cache.delete(key)
TaxpayerDelete(key) ==
  /\ cache' = CacheDelete(cache, key)
  /\ lastOp' = Did("delete", key, cache[key] # Null)
  /\ UNCHANGED << now, managerCache, stored, agentIdle, agents >>

\* The triggers the invalidations of these runs are made with.
TaxpayerTriggers == {"ruc_status_change", "establishment_update"}

TaxpayersInit ==
  /\ AgentInit
  /\ retry = Null
  /\ probe = Null
  /\ CachesUntouched

TaxpayersNext ==
  \/ \E ruc \in Taxpayers : AgentLookup(ruc)
  \/ \E ruc \in Taxpayers : AgentFetched(ruc)
  \/ \E ruc \in Taxpayers : AgentLogin(ruc)
  \/ \E ruc \in Taxpayers : AgentProfile(ruc)
  \/ \E ruc \in Taxpayers : AgentConfigured(ruc)
  \/ \E ruc \in Taxpayers : AgentSessionInvalidated(ruc)
  \/ \E key \in CacheKeys : TaxpayerDelete(key)
  \/ \E ruc \in Taxpayers, trigger \in TaxpayerTriggers : invalidateConfig(ruc, trigger)

SpecTaxpayers == TaxpayersInit /\ [][TaxpayersNext]_vars

\* What is kept for one taxpayer: its cache entry, its agent's session,
\* configuration and profile, and its key in CacheManager's Map.
TaxpayerState(ruc) ==
  << cache[CacheKey(ruc)], agents[ruc], CacheKey(ruc) \in managerCache >>

\* C27: a step made for one taxpayer (a cache set or delete, an invalidation,
\* a reconciliation refresh, a session invalidation) leaves the cache entry,
\* the session and the configuration of every other taxpayer as they were.
C27_OtherTaxpayersUntouched ==
  [][\A ruc \in Taxpayers :
       (lastOp' # Null /\ lastOp'.key # CacheKey(ruc)) =>
         TaxpayerState(ruc)' = TaxpayerState(ruc)]_vars

\* Both taxpayers had a cached configuration and a session; the entry of the
\* first was deleted and the second still has its entry, session and
\* configuration.
C27_Witness ==
  /\ lastOp # Null /\ lastOp.op = "delete" /\ lastOp.key = CacheKey(RUC)
  /\ lastOp.returned
  /\ cache[CacheKey(RUC)] = Null
  /\ agents[RUC].session # NoSession
  /\ cache[CacheKey(OtherRUC)] # Null
  /\ cache[CacheKey(OtherRUC)].data = RenewedConfig
  /\ agents[OtherRUC].session # NoSession
  /\ agents[OtherRUC].config = RenewedConfig

\* ============================================================ mockLoginApi
\* MOCK_CREDENTIALS
MOCK_CREDENTIALS == [username |-> "5452", password |-> "test_marangatu_key_12345"]

\* The responses of the mock: the three errors by their code, and
\* MOCK_LOGIN_RESPONSE.
LoginError(code) == [success |-> FALSE, code |-> code, session_token |-> ""]

MOCK_ERROR_INVALID_CREDENTIALS == LoginError("INVALID_CREDENTIALS")

MOCK_ERROR_APPROVAL_NOT_FOUND == LoginError("APPROVAL_NOT_FOUND")

MOCK_ERROR_RUC_INACTIVE == LoginError("RUC_INACTIVE")

MOCK_LOGIN_RESPONSE ==
  [success |-> TRUE, code |-> "", session_token |-> "session_token_abcdef123456789"]

\* mockLoginApi(credentials), after its delay: the tests in their order.
mockLoginApi(credentials) ==
  IF credentials.username # MOCK_CREDENTIALS.username THEN MOCK_ERROR_INVALID_CREDENTIALS
  ELSE IF credentials.password # MOCK_CREDENTIALS.password THEN MOCK_ERROR_INVALID_CREDENTIALS
  ELSE IF credentials.username = "9999999" THEN MOCK_ERROR_RUC_INACTIVE
  ELSE IF credentials.username = "8888888" THEN MOCK_ERROR_APPROVAL_NOT_FOUND
  ELSE MOCK_LOGIN_RESPONSE

\* The credentials a test may log in with.
LoginCredentials ==
  [ username : {"5452", "9999999", "8888888", "1234567", ""},
    password : {"test_marangatu_key_12345", "wrong_key", ""} ]

LoginInit ==
  /\ AgentInit
  /\ retry = Null
  /\ CachesUntouched
  /\ probe = [calls |-> <<>>, pending |-> Absent]

\* mockLoginApi(credentials) is called and waits out its delay.
LoginCalled ==
  /\ probe.pending = Absent
  /\ Len(probe.calls) < MaxLoginCalls
  /\ \E credentials \in LoginCredentials :
       probe' = [probe EXCEPT !.pending = Present(credentials)]
  /\ UNCHANGED << agentVars, retry, cacheVars, agents >>

\* The delay is over and mockLoginApi returns.
LoginAnswered ==
  /\ probe.pending # Absent
  /\ probe' = [ calls |-> Append(probe.calls,
                                 [ credentials |-> probe.pending[1],
                                   response |-> mockLoginApi(probe.pending[1]) ]),
                pending |-> Absent ]
  /\ UNCHANGED << agentVars, retry, cacheVars, agents >>

LoginNext == LoginCalled \/ LoginAnswered

SpecLogin == LoginInit /\ [][LoginNext]_vars

\* C28: mockLoginApi answers RUC_INACTIVE to username '9999999',
\* APPROVAL_NOT_FOUND to username '8888888', INVALID_CREDENTIALS to any other
\* username or password that is not the mock's, and the successful login
\* response only when both username and password are the mock's.
C28_MockLoginScenarios ==
  \A i \in DOMAIN probe.calls :
    LET c == probe.calls[i].credentials
        r == probe.calls[i].response
    IN  /\ c.username = "9999999" => r = MOCK_ERROR_RUC_INACTIVE
        /\ c.username = "8888888" => r = MOCK_ERROR_APPROVAL_NOT_FOUND
        /\ (c.username \notin {"9999999", "8888888"} /\ c # MOCK_CREDENTIALS) =>
             r = MOCK_ERROR_INVALID_CREDENTIALS
        /\ r.success <=> c = MOCK_CREDENTIALS
        /\ r.success => r = MOCK_LOGIN_RESPONSE

\* C29: within one call the invoice confirmation is asked for at most once,
\* and exactly once, with the answer yes, before any POST /documento/crear; and
\* the payload that is posted is the one that was confirmed: the items of the
\* request with the totals the gate was shown.
C29_ConfirmedOnceThenSamePayload ==
  \A p \in Procs :
    /\ CountOp(p, "invoiceConfirmation") <= 1
    /\ \A i \in DOMAIN trace[p] :
         trace[p][i].op = "submitInvoice" =>
           /\ CountOp(p, "invoiceConfirmation") = 1
           /\ \E j \in 1 .. (i - 1) : trace[p][j] = Answer("invoiceConfirmation", TRUE)
    /\ pc[p] = "awaitSubmit" =>
         /\ loc[p].payload.items = loc[p].inv.items
         /\ loc[p].payload.resumen = loc[p].totals

\* ============================================================= termination
\* The runs in which every awaited call is answered: a remote call answers or
\* fails, the user answers a confirmation, a sleep ends. Either the agent is
\* driven (one call after the other, the remote configuration may change), or
\* one submitInvoiceWithRetry run.
LiveInit ==
  /\ AgentInit
  /\ probe = Null
  /\ CachesUntouched
  /\ retry \in {Null} \cup {RetryStart(maxRetries) : maxRetries \in 1 .. MaxRetriesBound}

LiveNext ==
  \/ \E p \in Procs : StartAlone(p)
  \/ \E p \in Procs : Step(p)
  \/ (retry = Null /\ RemoteChange)
  \/ (retry # Null /\ PostSucceeds)
  \/ (retry # Null /\ PostFails)
  \/ (retry # Null /\ SleepEnds)

\* Whatever is awaited is answered in the end.
SpecLive ==
  /\ LiveInit
  /\ [][LiveNext]_vars
  /\ \A p \in Procs : WF_vars(Step(p))
  /\ WF_vars(retry # Null /\ RetryNext)

\* The error field of the ProcessResult handleError returns.
HandleErrorCodes ==
  { "AUTHENTICATION_FAILED", "CONFIGURATION_INVALID", "CONFIGURATION_UNAVAILABLE",
    "UNKNOWN_ERROR", UserCancelledInvoice, "Invalid document type",
    "Establishment must be 1", "Dispatch point must be 1" } \cup InvoiceMessages

\* Call p has returned: a successful result, or a failure with an error code.
Ended(p) ==
  /\ pc[p] = "done"
  /\ result[p] # Null
  /\ (~result[p].success) => result[p].error \in HandleErrorCodes

\* The place of an await in processInvoice.
Rank(at) ==
  CASE at = "idle" -> 0
    [] at = "awaitFetch1" -> 1
    [] at = "awaitLogin" -> 2
    [] at = "awaitPerfil" -> 3
    [] at = "awaitCfgConfirm" -> 4
    [] at = "awaitSave" -> 5
    [] at = "awaitFetch2" -> 6
    [] at = "awaitInvConfirm" -> 7
    [] at = "awaitSubmit" -> 8
    [] at = "done" -> 9

====
